---- MODULE Spec2Model ----
(***************************************************************************)
(* A model of pdf_compressor.py.                                           *)
(*                                                                         *)
(*   Spec         main(): the batch loop, compress_pdf() and the two       *)
(*                strategies seen from compress_pdf (what they return and   *)
(*                which file they leave in the temporary directory).        *)
(*   SpecRewrite  compress_pdf_with_pikepdf(): one document, image by       *)
(*                image.                                                    *)
(*   SpecImage    compress_image(): the resize arithmetic.                  *)
(***************************************************************************)
EXTENDS Integers, Sequences, FiniteSets, TLC

VARIABLES
    \* ---- main() / compress_pdf() ----
    pc,             \* position of main()
    input_exists,   \* args.input names an existing directory
    args_output,    \* args.output: "none" or a directory
    fs,             \* the *.pdf files on disk: path -> content
    fs0,            \* fs when main() started (history)
    tmp,            \* the TemporaryDirectory of the running compress_pdf
    output_dir,
    pdf_files,      \* list(input_dir.glob('*.pdf')), as stems
    i,              \* the loop index of main (enumerate(pdf_files, 1))
    error_files,
    error_log,      \* compression_errors.json: NoLog or its error_files list
    exit_code,
    original_size, best_size, best_file,
    gs_result,      \* how the Ghostscript subprocess ended in this call
    pike_result,    \* how compress_pdf_with_pikepdf ended in this call
    ret,            \* the tuple compress_pdf returned
    log,            \* one entry per finished loop iteration (history)
    written,        \* the paths copy2 has written (history)
    \* ---- compress_pdf_with_pikepdf() ----
    rpc,            \* position inside the function
    doc,            \* the open document: pages of images
    doc0,           \* the document as opened (history)
    page_num, img_num,
    modifications_made,
    last_path,      \* what the last loop iteration did to its image (history)
    save_reached,   \* pdf.save was called
    exit_point,     \* where the function left the try block
    result,         \* the value returned
    \* ---- compress_image() ----
    ipc, img_size, img_mode, max_size, new_size, out_format

varsMain == <<pc, input_exists, args_output, fs, fs0, tmp, output_dir, pdf_files,
              i, error_files, error_log, exit_code, original_size, best_size,
              best_file, gs_result, pike_result, ret, log, written>>
varsRewrite == <<rpc, doc, doc0, page_num, img_num, modifications_made,
                 last_path, save_reached, exit_point, result>>
varsImage == <<ipc, img_size, img_mode, max_size, new_size, out_format>>
vars == <<varsMain, varsRewrite, varsImage>>

-----------------------------------------------------------------------------
(* Bounds *)

\* file sizes of the inputs are 1..MaxSize bytes; candidates 1..MaxSize+1
MaxSize == 3

-----------------------------------------------------------------------------
(* Paths and file contents *)

None == "None"
\* compression_errors.json does not exist
NoLog == [exists |-> FALSE, error_files |-> <<>>]

\* A stem <<b, k>> stands for the string b followed by k times "_compressed".
\* The *.pdf files the input directory can hold: a.pdf and a_compressed.pdf.
InputStems == {<<"a", 0>>, <<"a", 1>>}

\* f"{pdf_file.stem}_compressed.pdf"
CompressedStem(stem) == <<stem[1], stem[2] + 1>>

AllStems == InputStems \cup {CompressedStem(s) : s \in InputStems}

InputDir == "in"
DefaultOutputDir == "in/compressed_pdfs"
Dirs == {InputDir, DefaultOutputDir}
Paths == Dirs \X AllStems

Absent == [kind |-> "absent", name |-> <<"", 0>>, size |-> 0, corrupt |-> FALSE]

\* The bytes of an input file: which file it was, its length, and whether
\* pikepdf.open can parse it.
Originals(stem) ==
    [kind : {"orig"}, name : {stem}, size : 1..MaxSize, corrupt : BOOLEAN]

\* The bytes a strategy wrote for input `stem`.
Candidate(kind, stem, size) ==
    [kind |-> kind, name |-> stem, size |-> size, corrupt |-> FALSE]

CandidateSizes == 1..(MaxSize + 1)

EmptyTmp == [gs |-> Absent, pike |-> Absent]

\* os.path.exists / os.path.getsize
Exists(content) == content # Absent
GetSize(content) == content.size

RECURSIVE SeqToSet(_)
SeqToSet(s) == IF s = <<>> THEN {} ELSE {Head(s)} \cup SeqToSet(Tail(s))

\* every ordering of a set, as sequences without repetition
Orderings(S) ==
    {s \in [1..Cardinality(S) -> S] : \A x, y \in 1..Cardinality(S) : x # y => s[x] # s[y]}

-----------------------------------------------------------------------------
(* main(): set-up *)

IdleRewrite ==
    /\ rpc = "idle" /\ doc = <<>> /\ doc0 = <<>> /\ page_num = 0 /\ img_num = 0
    /\ modifications_made = FALSE /\ last_path = None /\ save_reached = FALSE
    /\ exit_point = None /\ result = None

IdleImage ==
    /\ ipc = "idle" /\ img_size = <<0, 0>> /\ img_mode = "RGB" /\ max_size = 0
    /\ new_size = <<0, 0>> /\ out_format = None

IdleMain ==
    /\ pc = "idle" /\ input_exists = FALSE /\ args_output = None
    /\ fs = [p \in Paths |-> Absent] /\ fs0 = [p \in Paths |-> Absent]
    /\ tmp = EmptyTmp /\ output_dir = None /\ pdf_files = <<>> /\ i = 0
    /\ error_files = <<>> /\ error_log = NoLog /\ exit_code = -1
    /\ original_size = 0 /\ best_size = 0 /\ best_file = None
    /\ gs_result = None /\ pike_result = None /\ ret = <<>> /\ log = <<>>
    /\ written = {}

\* The directories a run can start from: any of the InputStems directly under
\* the input directory, nothing in the output directory.
DirContents ==
    {g \in [InputStems -> {Absent} \cup UNION {Originals(s) : s \in InputStems}] :
        \A s \in InputStems : g[s] # Absent => g[s].name = s}

Listings ==
    {[p \in Paths |-> IF p[1] = InputDir /\ p[2] \in InputStems THEN g[p[2]] ELSE Absent] :
        g \in DirContents}

Init ==
    /\ pc = "start"
    /\ input_exists \in BOOLEAN
    /\ args_output \in {None, InputDir}
    /\ fs \in Listings
    /\ input_exists = FALSE => fs = [p \in Paths |-> Absent]
    /\ fs0 = fs
    /\ tmp = EmptyTmp /\ output_dir = None /\ pdf_files = <<>> /\ i = 0
    /\ error_files = <<>> /\ error_log = NoLog /\ exit_code = -1
    /\ original_size = 0 /\ best_size = 0 /\ best_file = None
    /\ gs_result = None /\ pike_result = None /\ ret = <<>> /\ log = <<>>
    /\ written = {}
    /\ IdleRewrite /\ IdleImage

UNCHANGED_call == UNCHANGED <<original_size, best_size, best_file, gs_result,
                              pike_result, ret, tmp>>

\* lines 216-219
InputDirMissing ==
    /\ UNCHANGED <<varsRewrite, varsImage>>
    /\ pc = "start" /\ ~input_exists
    /\ exit_code' = 1
    /\ pc' = "done"
    /\ UNCHANGED <<input_exists, args_output, fs, fs0, output_dir, pdf_files, i,
                   error_files, error_log, log, written>>
    /\ UNCHANGED_call

\* lines 222-225
OutputDirOf(arg) == IF arg # None THEN arg ELSE DefaultOutputDir

\* lines 221-244: the output directory, error_files = [], the glob (in the
\* order the file system lists the directory)
Setup ==
    /\ UNCHANGED <<varsRewrite, varsImage>>
    /\ pc = "start" /\ input_exists
    /\ output_dir' = OutputDirOf(args_output)
    /\ error_files' = <<>>
    /\ \E order \in Orderings({p[2] : p \in {q \in Paths : q[1] = InputDir /\ fs[q] # Absent}}) :
          pdf_files' = order
    /\ i' = 1
    /\ pc' = "loop"
    /\ UNCHANGED <<input_exists, args_output, fs, fs0, error_log, exit_code, log, written>>
    /\ UNCHANGED_call

InputPath(stem) == <<InputDir, stem>>
\* line 250
OutputPath(dir, stem) == <<dir, CompressedStem(stem)>>

CurStem == pdf_files[i]
CurInput == InputPath(CurStem)
CurOutput == OutputPath(output_dir, CurStem)

-----------------------------------------------------------------------------
(* compress_pdf() *)

\* lines 246-250 and 141-147: the next file; its size is read, the temporary
\* directory is created
EnterCompress ==
    /\ UNCHANGED <<varsRewrite, varsImage>>
    /\ pc = "loop" /\ i <= Len(pdf_files)
    /\ original_size' = GetSize(fs[CurInput])
    /\ best_size' = GetSize(fs[CurInput])
    /\ best_file' = None
    /\ tmp' = EmptyTmp
    /\ gs_result' = None /\ pike_result' = None /\ ret' = <<>>
    /\ pc' = "gs"
    /\ UNCHANGED <<input_exists, args_output, fs, fs0, output_dir, pdf_files, i,
                   error_files, error_log, exit_code, log, written>>

\* How the subprocess.run of line 69 can end.
\*   exit0     the process ran and exited with code 0
\*   nonzero   CalledProcessError (check=True)
\*   missing   FileNotFoundError: no such executable
\*   oserror   another OSError from spawning (PermissionError: the file found
\*             on PATH is not executable; out of memory; ...)
GsEndings == {"exit0", "nonzero", "missing", "oserror"}

\* The files Ghostscript can leave at -sOutputFile for each ending.
GsFiles(ending, stem) ==
    IF ending \in {"exit0", "nonzero"}
    THEN {Absent} \cup {Candidate("gs", stem, n) : n \in CandidateSizes}
    ELSE {Absent}

\* lines 68-72: what try_ghostscript_compression does with each ending
GsReturn(ending) ==
    CASE ending = "exit0" -> "True"
      [] ending \in {"nonzero", "missing"} -> "False"
      [] OTHER -> "raise"

\* Better gone wrong: the comparison reversed, and a tie taken as a gain
BetterReversed(size, best) == size > best
BetterOrEqual(size, best) == size <= best

\* lines 159 and 176
Better(size, best) == size < best

\* Considered gone wrong: the strategy's return value is not looked at
ConsideredIfExists(success, file) == Exists(file)

\* lines 157-161 and 174-178: a candidate is taken when the strategy reported
\* success, its file exists and it is smaller than the best so far
Considered(success, file) == success /\ Exists(file)

\* lines 150-162: Ghostscript runs on the input file
Ghostscript ==
    /\ UNCHANGED <<varsRewrite, varsImage>>
    /\ pc = "gs"
    /\ \E ending \in GsEndings : \E file \in GsFiles(ending, CurStem) :
        /\ gs_result' = ending
        /\ IF GsReturn(ending) = "raise"
           THEN \* the exception leaves compress_pdf; the with block removes
                \* the temporary directory
                /\ tmp' = EmptyTmp
                /\ pc' = "raised"
                /\ UNCHANGED <<best_size, best_file>>
           ELSE /\ tmp' = [tmp EXCEPT !.gs = file]
                /\ pc' = "pikepdf"
                /\ IF Considered(GsReturn(ending) = "True", file)
                      /\ Better(GetSize(file), best_size)
                   THEN best_size' = GetSize(file) /\ best_file' = "gs"
                   ELSE UNCHANGED <<best_size, best_file>>
    /\ UNCHANGED <<input_exists, args_output, fs, fs0, output_dir, pdf_files, i,
                   error_files, error_log, exit_code, original_size, pike_result,
                   ret, log, written>>

\* How compress_pdf_with_pikepdf can end (lines 74-136).
\*   open_fail    pikepdf.open raised (line 77)
\*   images_fail  an exception outside the per-image try (lines 82, 84)
\*   save_fail    pdf.save raised (line 128)
\*   saved        line 133
PikeEndings == {"open_fail", "images_fail", "save_fail", "saved"}

\* the endings possible for a file: a corrupt file is one pikepdf cannot open
PikeEndingsOf(content) ==
    IF content.corrupt THEN {"open_fail"} ELSE PikeEndings \ {"open_fail"}

\* The files the function can leave at output_path for each ending: a failed
\* save may leave a partial file.
PikeFiles(ending, stem) ==
    CASE ending = "saved" -> {Candidate("pike", stem, n) : n \in CandidateSizes}
      [] ending = "save_fail" ->
            {Absent} \cup {Candidate("pike_partial", stem, n) : n \in CandidateSizes}
      [] OTHER -> {Absent}

\* PikeReturn gone wrong: a failure to open the document is not caught
PikeReturnOpenRaises(ending) ==
    CASE ending = "saved" -> "True"
      [] ending = "open_fail" -> "raise"
      [] OTHER -> "False"

\* lines 76, 133-136: True after the save; every Exception raised inside the
\* try is caught by the except clause of line 134, which returns False
PikeReturn(ending) ==
    CASE ending = "saved" -> "True"
      [] OTHER -> "False"

\* lines 164-179: the rewriter runs on the input file, whatever Ghostscript did
Pikepdf ==
    /\ UNCHANGED <<varsRewrite, varsImage>>
    /\ pc = "pikepdf"
    /\ \E ending \in PikeEndingsOf(fs[CurInput]) : \E file \in PikeFiles(ending, CurStem) :
        /\ pike_result' = ending
        /\ IF PikeReturn(ending) = "raise"
           THEN /\ tmp' = EmptyTmp
                /\ pc' = "raised"
                /\ UNCHANGED <<best_size, best_file>>
           ELSE /\ tmp' = [tmp EXCEPT !.pike = file]
                /\ pc' = "commit"
                /\ IF Considered(PikeReturn(ending) = "True", file)
                      /\ Better(GetSize(file), best_size)
                   THEN best_size' = GetSize(file) /\ best_file' = "pike"
                   ELSE UNCHANGED <<best_size, best_file>>
    /\ UNCHANGED <<input_exists, args_output, fs, fs0, output_dir, pdf_files, i,
                   error_files, error_log, exit_code, original_size, gs_result,
                   ret, log, written>>

\* lines 182-188: what is copied to output_path and what is returned
CommitSource(best, temp, input) == IF best # None THEN temp[best] ELSE input
CommitReturn(best, orig, size) ==
    IF best # None THEN <<TRUE, orig, size>> ELSE <<FALSE, orig, orig>>

\* lines 181-188, and the end of the with block of line 146
Commit ==
    /\ UNCHANGED <<varsRewrite, varsImage>>
    /\ pc = "commit"
    /\ fs' = [fs EXCEPT ![CurOutput] = CommitSource(best_file, tmp, fs[CurInput])]
    /\ written' = written \cup {CurOutput}
    /\ ret' = CommitReturn(best_file, original_size, best_size)
    /\ tmp' = EmptyTmp
    /\ pc' = "returned"
    /\ UNCHANGED <<input_exists, args_output, fs0, output_dir, pdf_files, i,
                   error_files, error_log, exit_code, original_size, best_size,
                   best_file, gs_result, pike_result, log>>

-----------------------------------------------------------------------------
(* main(): the loop body after compress_pdf, and the error log *)

\* lines 262-266
Outcome(success, orig, compressed) ==
    IF success /\ compressed < orig THEN "compressed" ELSE "unchanged"

LogEntry(stem, outcome, content) ==
    [name |-> stem, outcome |-> outcome, corrupt |-> content.corrupt]

\* lines 254-266: compress_pdf returned
Returned ==
    /\ UNCHANGED <<varsRewrite, varsImage>>
    /\ pc = "returned"
    /\ log' = Append(log, LogEntry(CurStem, Outcome(ret[1], ret[2], ret[3]), fs[CurInput]))
    /\ i' = i + 1
    /\ pc' = "loop"
    /\ UNCHANGED <<input_exists, args_output, fs, fs0, output_dir, pdf_files,
                   error_files, error_log, exit_code, written>>
    /\ UNCHANGED_call

\* AppendError gone wrong: the list is overwritten, not appended to
AppendErrorOverwrites(errors, name) == <<name>>

\* line 268
AppendError(errors, name) == Append(errors, name)

\* lines 267-269: compress_pdf raised
Except ==
    /\ UNCHANGED <<varsRewrite, varsImage>>
    /\ pc = "raised"
    /\ error_files' = AppendError(error_files, CurStem)
    /\ log' = Append(log, LogEntry(CurStem, "failed", fs[CurInput]))
    /\ i' = i + 1
    /\ pc' = "loop"
    /\ UNCHANGED <<input_exists, args_output, fs, fs0, output_dir, pdf_files,
                   error_log, exit_code, written>>
    /\ UNCHANGED_call

\* lines 190-198 (the timestamp is left out)
create_error_log(errors) == [exists |-> TRUE, error_files |-> errors]

\* line 272: a non-empty list is true
NeedsErrorLog(errors) == errors # <<>>

\* lines 271-278: after the loop
Finish ==
    /\ UNCHANGED <<varsRewrite, varsImage>>
    /\ pc = "loop" /\ i > Len(pdf_files)
    /\ error_log' = IF NeedsErrorLog(error_files)
                    THEN create_error_log(error_files) ELSE error_log
    /\ exit_code' = 0
    /\ pc' = "done"
    /\ UNCHANGED <<input_exists, args_output, fs, fs0, output_dir, pdf_files, i,
                   error_files, log, written>>
    /\ UNCHANGED_call

Next ==
    \/ InputDirMissing
    \/ Setup
    \/ EnterCompress
    \/ Ghostscript
    \/ Pikepdf
    \/ Commit
    \/ Returned
    \/ Except
    \/ Finish

Spec == Init /\ [][Next]_vars

-----------------------------------------------------------------------------
(* Claims checked under Spec *)

InCall == pc \in {"gs", "pikepdf", "commit", "returned", "raised"}

Min(S) == CHOOSE x \in S : \A y \in S : x <= y

\* the sizes of the candidates compress_pdf may take: the strategy reported
\* success and its file exists in the temporary directory
ConsideredSizes ==
    {GetSize(tmp.gs) : x \in {y \in {1} : GsReturn(gs_result) = "True" /\ Exists(tmp.gs)}}
    \cup {GetSize(tmp.pike) : x \in {y \in {1} : PikeReturn(pike_result) = "True" /\ Exists(tmp.pike)}}

\* C1: whenever compress_pdf returns (improved, original_size, final_size),
\* final_size <= original_size and the file at output_path has final_size
\* bytes; when improved is false that file is a byte-for-byte copy of the
\* input and final_size = original_size.
C1_NeverRegresses ==
    pc = "returned" =>
        /\ ret[2] = GetSize(fs[CurInput])
        /\ ret[3] <= ret[2]
        /\ GetSize(fs[CurOutput]) = ret[3]
        /\ ret[1] = FALSE => fs[CurOutput] = fs[CurInput] /\ ret[3] = ret[2]

\* both strategies succeeded, neither was smaller, the original was copied
C1_Witness ==
    /\ pc = "returned" /\ gs_result = "exit0" /\ pike_result = "saved"
    /\ ret = <<FALSE, MaxSize - 1, MaxSize - 1>>
    /\ fs[CurOutput] = fs[CurInput]

\* C2: the rewriter runs on the input file whatever Ghostscript returned;
\* best_size is the minimum of original_size and the sizes of the candidates
\* that reported success and exist; the file committed is a candidate of
\* exactly that size; improved iff final_size < original_size; an equal-sized
\* candidate never replaces the original and on a tie Ghostscript's is kept.
C2_GlobalMinimum ==
    /\ pc = "commit" =>
        /\ pike_result \in PikeEndingsOf(fs[CurInput])
        /\ best_size = Min({original_size} \cup ConsideredSizes)
        /\ best_file = None <=> best_size = original_size
        /\ best_file # None =>
              /\ Exists(tmp[best_file])
              /\ GetSize(tmp[best_file]) = best_size
              /\ tmp[best_file].name = CurStem
        /\ (best_file = "pike" /\ GsReturn(gs_result) = "True" /\ Exists(tmp.gs))
              => GetSize(tmp.pike) < GetSize(tmp.gs)
    /\ pc = "returned" =>
        /\ ret = <<best_file # None, original_size, best_size>>
        /\ ret[1] <=> ret[3] < ret[2]
        /\ best_file = "gs" => fs[CurOutput] = Candidate("gs", CurStem, best_size)
        /\ best_file = "pike" => fs[CurOutput] = Candidate("pike", CurStem, best_size)
        /\ best_file = None => fs[CurOutput] = fs[CurInput]

\* Ghostscript's candidate beat the original and the rewriter's beat both
C2_Witness ==
    /\ pc = "returned" /\ gs_result = "exit0" /\ pike_result = "saved"
    /\ ret = <<TRUE, MaxSize, 1>>
    /\ fs[CurOutput] = Candidate("pike", CurStem, 1)

\* the discovered files whose bytes pikepdf cannot open
CorruptInputs == {s \in SeqToSet(pdf_files) : fs0[InputPath(s)].corrupt}

NoCallRaised == \A k \in 1..Len(log) : log[k].outcome # "failed"

\* C3 as stated: in a batch with one corrupt PDF and the others valid (and
\* no other failure), error_files is exactly that file's name,
\* compression_errors.json lists exactly it, every file is processed and
\* the exit code is 0.
C3_CorruptRecordedAsFailure ==
    (pc = "done" /\ Len(pdf_files) >= 2 /\ Cardinality(CorruptInputs) = 1
        /\ output_dir = DefaultOutputDir /\ NoCallRaised)
    => \E s \in CorruptInputs :
          /\ error_files = <<s>>
          /\ error_log = [exists |-> TRUE, error_files |-> <<s>>]
          /\ Len(log) = Len(pdf_files)
          /\ exit_code = 0

\* C3 amended: a document that cannot be opened does not make compress_pdf
\* raise (a call raises only when Ghostscript could not be spawned): the call
\* returns after committing Ghostscript's candidate or a copy of the
\* original, the file is logged as compressed or unchanged, its name is in
\* error_files only if the call raised for the other reason,
\* compression_errors.json is written only if some call raised, every file is
\* processed and the exit code is 0.
C3_CorruptNotRecorded ==
    /\ pc = "raised" => gs_result = "oserror"
    /\ (pc = "returned" /\ fs[CurInput].corrupt) =>
          /\ pike_result = "open_fail"
          /\ CurOutput \in written
          /\ \/ ret[1] = FALSE /\ fs[CurOutput] = fs[CurInput]
             \/ ret[1] = TRUE /\ fs[CurOutput].kind = "gs"
    /\ (pc = "done" /\ input_exists) =>
          /\ exit_code = 0
          /\ Len(log) = Len(pdf_files)
          /\ \A k \in 1..Len(log) :
                /\ log[k].name = pdf_files[k]
                /\ log[k].name \in SeqToSet(error_files) <=> log[k].outcome = "failed"
          /\ error_log.exists <=> ~NoCallRaised

\* one corrupt file and one valid file, both processed, nothing recorded
C3_Witness ==
    /\ pc = "done" /\ Len(log) = 2 /\ output_dir = DefaultOutputDir
    /\ Cardinality(CorruptInputs) = 1
    /\ \E k \in 1..2 : log[k].corrupt /\ log[k].outcome = "unchanged"
    /\ \E k \in 1..2 : ~log[k].corrupt /\ log[k].outcome = "compressed"
    /\ error_files = <<>> /\ ~error_log.exists /\ exit_code = 0

RewriterFailed == pike_result \in {"open_fail", "save_fail"}

\* C4 as stated: when the document cannot be opened or the save fails,
\* nothing is committed: output_path is not written and holds no file when
\* compress_pdf ends.
C4_NothingCommitted ==
    (pc = "returned" /\ RewriterFailed) =>
        CurOutput \notin written /\ ~Exists(fs[CurOutput])

\* C4 amended: when the document cannot be opened or the save fails, the
\* rewriter's output (a partial file included) is never committed, but
\* compress_pdf still writes output_path: Ghostscript's candidate when it is
\* strictly smaller than the original (improved true), otherwise a
\* byte-for-byte copy of the original (improved false).
C4_FallbackCommitted ==
    (pc \in {"commit", "returned"} /\ RewriterFailed) =>
        /\ best_file # "pike"
        /\ pc = "returned" =>
              /\ CurOutput \in written
              /\ \/ ret[1] = FALSE /\ fs[CurOutput] = fs[CurInput]
                 \/ /\ ret[1] = TRUE
                    /\ fs[CurOutput] = Candidate("gs", CurStem, ret[3])
                    /\ ret[3] < ret[2]

\* the save failed, Ghostscript did not help, the original was copied
C4_Witness ==
    /\ pc = "returned" /\ pike_result = "save_fail" /\ gs_result = "missing"
    /\ ret[1] = FALSE /\ fs[CurOutput] = fs[CurInput] /\ CurOutput \in written

\* C5 as stated: every way the Ghostscript invocation can fail makes
\* try_ghostscript_compression return False without raising, compress_pdf
\* goes on to the rewriter, and the file is not put in error_files.
C5_GhostscriptFailureNotFatal ==
    /\ (InCall /\ gs_result \in GsEndings \ {"exit0"}) =>
          /\ pc # "raised"
          /\ CurStem \notin SeqToSet(error_files)
    /\ pc = "done" =>
          \A k \in 1..Len(log) : log[k].outcome # "failed"

\* C6: main processes every discovered file exactly once, in discovery order;
\* each ends as compressed, unchanged or failed; error_files is the sequence
\* of the names of the files whose call raised; compression_errors.json is
\* written iff that sequence is non-empty, and lists it.
IsFailed(entry) == entry.outcome = "failed"

RECURSIVE Names(_)
Names(entries) ==
    IF entries = <<>> THEN <<>> ELSE <<Head(entries).name>> \o Names(Tail(entries))

C6_BatchBookkeeping ==
    /\ InCall => Len(log) = i - 1
    /\ pc # "start" =>
          /\ Len(log) <= Len(pdf_files)
          /\ Names(log) = SubSeq(pdf_files, 1, Len(log))
          /\ \A k \in 1..Len(log) : log[k].outcome \in {"compressed", "unchanged", "failed"}
          /\ error_files = Names(SelectSeq(log, IsFailed))
    /\ (pc = "done" /\ input_exists) =>
          /\ Names(log) = pdf_files
          /\ error_log.exists <=> error_files # <<>>
          /\ error_log.error_files = error_files

\* two files both failed and both are listed, in order
C6_Witness ==
    /\ pc = "done" /\ Len(pdf_files) = 2
    /\ log[1].outcome = "failed" /\ log[2].outcome = "failed"
    /\ error_files = pdf_files
    /\ error_log = [exists |-> TRUE, error_files |-> pdf_files]

DiscoveredPaths == {InputPath(s) : s \in SeqToSet(pdf_files)}

\* C7 as stated: for any output directory, the input directory included, no
\* write targets the path of a discovered input file (every path written
\* differs from every input path) and every input file is unchanged after
\* the run.
C7_InputsNeverWritten ==
    /\ written \cap DiscoveredPaths = {}
    /\ pc = "done" => \A p \in DiscoveredPaths : fs[p] = fs0[p]

-----------------------------------------------------------------------------
(* compress_pdf_with_pikepdf(): one document, image by image *)

\* a document holds at most MaxImages images
MaxImages == 2
\* an extracted or recompressed payload is 1..MaxLen bytes long
MaxLen == 2

Lens == 1..MaxLen

\* the bytes of a stream: what they are and how long the payload read from
\* them (read_bytes) or written to them (compress_image) is
Payload(kind, len) == [kind |-> kind, len |-> len]

\* The /Filter, /DecodeParms and presence of /ColorSpace of the images a
\* document holds: the one combination the fallback of lines 112-116 applies
\* to, and one that fails each of its three tests.
ImageKinds ==
    {<<"DCTDecode", None, TRUE>>, <<"DCTDecode", None, FALSE>>,
     <<"DCTDecode", "other", TRUE>>, <<"FlateDecode", None, TRUE>>}

\* An image XObject: its stream data, its /Filter, its /DecodeParms and
\* whether it has a /ColorSpace.
Images ==
    {[data |-> Payload("orig", n), filter |-> k[1], parms |-> k[2], colorspace |-> k[3]] :
        n \in Lens, k \in ImageKinds}

ImageLists == UNION {[1..n -> Images] : n \in 0..MaxImages}

\* documents of one page or two, every image referenced once
Docs ==
    {<<s>> : s \in ImageLists}
    \cup UNION {{<<SubSeq(s, 1, c), SubSeq(s, c + 1, Len(s))>> : c \in 0..Len(s)} :
                  s \in ImageLists}

InitRewrite ==
    /\ rpc = "open"
    /\ doc0 \in Docs
    /\ doc = doc0
    /\ page_num = 0 /\ img_num = 0
    /\ modifications_made = FALSE /\ last_path = None /\ save_reached = FALSE
    /\ exit_point = None /\ result = None
    /\ IdleMain /\ IdleImage

UNCHANGED_others == UNCHANGED <<varsMain, varsImage>>

\* line 77: pikepdf.open succeeds; line 79
OpenDocument ==
    /\ UNCHANGED_others
    /\ rpc = "open"
    /\ modifications_made' = FALSE
    /\ rpc' = "pages"
    /\ UNCHANGED <<doc, doc0, page_num, img_num, last_path, save_reached, exit_point, result>>

\* lines 134-136: the except clause of the outer try
ReturnFalse(why) ==
    /\ exit_point' = why
    /\ result' = PikeReturn(why)
    /\ rpc' = "done"

\* line 77: pikepdf.open raises
OpenFails ==
    /\ UNCHANGED_others
    /\ rpc = "open"
    /\ ReturnFalse("open_fail")
    /\ UNCHANGED <<doc, doc0, page_num, img_num, modifications_made, last_path, save_reached>>

\* lines 82-84: the next page; list(page.images.items()) succeeds
EnumeratePage ==
    /\ UNCHANGED_others
    /\ rpc = "pages" /\ page_num < Len(doc)
    /\ page_num' = page_num + 1
    /\ img_num' = 0
    /\ rpc' = "images"
    /\ UNCHANGED <<doc, doc0, modifications_made, last_path, save_reached, exit_point, result>>

\* lines 82-84: iterating pdf.pages or reading page.images raises; both are
\* outside the per-image try of line 86, so the exception goes to line 134
EnumerateFails ==
    /\ UNCHANGED_others
    /\ rpc = "pages" /\ page_num < Len(doc)
    /\ ReturnFalse("images_fail")
    /\ UNCHANGED <<doc, doc0, page_num, img_num, modifications_made, last_path, save_reached>>

\* the image the loop of line 84 is at
HasImage == rpc = "images" /\ img_num < Len(doc[page_num])
CurImage == doc[page_num][img_num + 1]

\* Skip gone wrong: the failure is not caught at the image and ends the walk
SkipAborts ==
    /\ ReturnFalse("image_fail")
    /\ UNCHANGED <<doc, doc0, page_num, img_num, modifications_made, last_path, save_reached>>

\* the end of one iteration of the loop of line 84 that changed nothing
Skip ==
    /\ last_path' = "unchanged"
    /\ img_num' = img_num + 1
    /\ UNCHANGED <<rpc, doc, doc0, page_num, modifications_made, save_reached, exit_point, result>>

\* line 87 raises; lines 123-125
ImgWrapperFails ==
    /\ UNCHANGED_others
    /\ HasImage
    /\ Skip

\* line 91 raises something that is not a PdfError; lines 123-125
ImgExtractFails ==
    /\ UNCHANGED_others
    /\ HasImage
    /\ Skip

\* lines 94-98: compress_image raises (the payload is not an image PIL can
\* open); not a PdfError, so lines 123-125
ImgDecodeFails ==
    /\ UNCHANGED_others
    /\ HasImage
    /\ Skip

\* lines 91-106 raise a PdfError that is not "unfilterable stream"; lines 121-122
ImgPdfError ==
    /\ UNCHANGED_others
    /\ HasImage
    /\ Skip

\* lines 112 and 114: the fallback applies to this image
FallbackApplies(image) ==
    /\ image.colorspace
    /\ image.filter = "DCTDecode"
    /\ image.parms = None

\* line 116
WithQualityHint(image) == [image EXCEPT !.parms = "Quality"]

\* lines 108-118: a PdfError "unfilterable stream" from lines 91-104; the
\* fallback runs without raising
ImgUnfilterable ==
    /\ UNCHANGED_others
    /\ HasImage
    /\ IF FallbackApplies(CurImage)
       THEN /\ doc' = [doc EXCEPT ![page_num][img_num + 1] = WithQualityHint(CurImage)]
            /\ modifications_made' = TRUE
            /\ last_path' = "quality_hint"
       ELSE /\ UNCHANGED <<doc, modifications_made>>
            /\ last_path' = "unchanged"
    /\ img_num' = img_num + 1
    /\ UNCHANGED <<rpc, doc0, page_num, save_reached, exit_point, result>>

\* lines 108-120: the fallback itself raises
ImgFallbackFails ==
    /\ UNCHANGED_others
    /\ HasImage
    /\ Skip

\* AchievedCompression gone wrong: an equally long payload counts
AchievedCompressionOrEqual(compressed_len, len) == compressed_len <= len

\* line 101
AchievedCompression(compressed_len, len) == compressed_len < len

\* lines 91-101: extraction and recompression succeed, the result is not
\* smaller and is dropped
ImgNotSmaller ==
    /\ UNCHANGED_others
    /\ HasImage
    /\ \E compressed_len \in Lens :
          ~AchievedCompression(compressed_len, CurImage.data.len)
    /\ Skip

\* lines 103-104: the stream's data and /Filter after raw_image.write; write
\* sets /DecodeParms too (to nothing)
Rewritten(image, compressed_len) ==
    [image EXCEPT !.data = Payload("jpeg", compressed_len),
                  !.filter = "DCTDecode",
                  !.parms = None]

\* lines 91-106: extraction and recompression succeed, the result is smaller,
\* the stream is replaced
ImgReplaced ==
    /\ UNCHANGED_others
    /\ HasImage
    /\ \E compressed_len \in Lens :
          /\ AchievedCompression(compressed_len, CurImage.data.len)
          /\ doc' = [doc EXCEPT ![page_num][img_num + 1] = Rewritten(CurImage, compressed_len)]
    /\ modifications_made' = TRUE
    /\ last_path' = "replaced"
    /\ img_num' = img_num + 1
    /\ UNCHANGED <<rpc, doc0, page_num, save_reached, exit_point, result>>

\* lines 103-104: make_stream or write raises something that is not a
\* PdfError, the stream untouched; lines 123-125
ImgReplaceFails ==
    /\ UNCHANGED_others
    /\ HasImage
    /\ \E compressed_len \in Lens :
          AchievedCompression(compressed_len, CurImage.data.len)
    /\ Skip

\* line 84: the images of the page are exhausted
EndPage ==
    /\ UNCHANGED_others
    /\ rpc = "images" /\ img_num = Len(doc[page_num])
    /\ rpc' = "pages"
    /\ UNCHANGED <<doc, doc0, page_num, img_num, modifications_made, last_path,
                   save_reached, exit_point, result>>

\* lines 127-133: pdf.save succeeds
Save ==
    /\ UNCHANGED_others
    /\ rpc = "pages" /\ page_num = Len(doc)
    /\ save_reached' = TRUE
    /\ exit_point' = "saved"
    /\ result' = PikeReturn("saved")
    /\ rpc' = "done"
    /\ UNCHANGED <<doc, doc0, page_num, img_num, modifications_made, last_path>>

\* line 128 raises; lines 134-136
SaveFails ==
    /\ UNCHANGED_others
    /\ rpc = "pages" /\ page_num = Len(doc)
    /\ save_reached' = TRUE
    /\ ReturnFalse("save_fail")
    /\ UNCHANGED <<doc, doc0, page_num, img_num, modifications_made, last_path>>

NextRewrite ==
    \/ OpenDocument
    \/ OpenFails
    \/ EnumeratePage
    \/ EnumerateFails
    \/ ImgWrapperFails
    \/ ImgExtractFails
    \/ ImgDecodeFails
    \/ ImgPdfError
    \/ ImgUnfilterable
    \/ ImgFallbackFails
    \/ ImgNotSmaller
    \/ ImgReplaced
    \/ ImgReplaceFails
    \/ EndPage
    \/ Save
    \/ SaveFails

SpecRewrite == InitRewrite /\ [][NextRewrite]_vars

-----------------------------------------------------------------------------
(* Claims checked under SpecRewrite *)

\* C8 as stated: the function returns False only if the document cannot be
\* opened or the final save fails; once the document is open, any failure
\* while walking it (enumerating a page's images included) still leads to
\* the save, and the function returns True when the save succeeds.
C8_FalseOnlyOnOpenOrSave ==
    rpc = "done" =>
        /\ result = "False" => exit_point \in {"open_fail", "save_fail"}
        /\ exit_point # "open_fail" => save_reached
        /\ (save_reached /\ exit_point = "saved") => result = "True"

\* C8 amended: the function returns False only if the document cannot be
\* opened, iterating the pages or enumerating a page's images raises, or the
\* final save fails. No failure at an image (wrapper, extraction, decode,
\* recompression, replacement, fallback) ends the walk: the loop goes on to
\* the next image, and when every page's images could be enumerated the save
\* is reached, modifications or not, and the function returns True when it
\* succeeds.
C8_FalseOnlyOutsideImages ==
    /\ rpc \in {"pages", "images"} => result = None
    /\ rpc = "done" =>
          /\ exit_point \in {"open_fail", "images_fail", "save_fail", "saved"}
          /\ result = "False" <=> exit_point # "saved"
          /\ result = "True" <=> exit_point = "saved"
          /\ save_reached <=> exit_point \in {"save_fail", "saved"}
          /\ save_reached =>
                /\ page_num = Len(doc)
                /\ page_num > 0 => img_num = Len(doc[page_num])

\* two images, nothing modified, the save reached, True returned
C8_Witness ==
    /\ rpc = "done" /\ result = "True" /\ save_reached
    /\ Len(doc0) = 1 /\ Len(doc0[1]) = 2
    /\ doc = doc0 /\ ~modifications_made

Positions == {<<p, k>> \in (1..Len(doc0)) \X (1..MaxImages) : k <= Len(doc0[p])}

\* C9: an image's payload bytes are replaced only where extraction and
\* recompression succeeded and the new payload is strictly smaller than the
\* extracted one; on every other path (not smaller, decode or extraction
\* failure, the quality-hint fallback, a failed fallback) payload and filter
\* are those of the input document.
C9_ReplacedOnlyIfSmaller ==
    /\ Len(doc) = Len(doc0)
    /\ \A p \in 1..Len(doc0) : Len(doc[p]) = Len(doc0[p])
    /\ \A pos \in Positions :
          LET before == doc0[pos[1]][pos[2]]
              after == doc[pos[1]][pos[2]]
          IN  \/ after.data = before.data /\ after.filter = before.filter
              \/ /\ after.data.kind = "jpeg"
                 /\ after.data.len < before.data.len
                 /\ after.filter = "DCTDecode"
    /\ (rpc = "images" /\ img_num > 0) =>
          LET before == doc0[page_num][img_num]
              after == doc[page_num][img_num]
          IN  /\ last_path # "replaced" =>
                    after.data = before.data /\ after.filter = before.filter
              /\ last_path = "replaced" => after.data.kind = "jpeg"
              /\ last_path = "quality_hint" =>
                    after = [before EXCEPT !.parms = "Quality"]
              /\ last_path = "unchanged" => after = before

\* one image was replaced by a smaller payload and the next one only got the
\* quality hint
C9_Witness ==
    /\ rpc = "images" /\ img_num = 2 /\ last_path = "quality_hint"
    /\ doc[page_num][1].data = Payload("jpeg", 1)
    /\ doc0[page_num][1].data = Payload("orig", 2)
    /\ doc[page_num][2].data = doc0[page_num][2].data
    /\ doc[page_num][2].filter = doc0[page_num][2].filter
    /\ doc[page_num][2].parms = "Quality"

-----------------------------------------------------------------------------
(* compress_image(): the resize arithmetic *)

\* width, height and max_size are 1..MaxDim
MaxDim == 22

Max2(a, b) == IF a >= b THEN a ELSE b
Min2(a, b) == IF a <= b THEN a ELSE b

\* The triples <<s, max_size, m>> with s <= m, max_size < m <= 27 for which the
\* double product s * (max_size / m) of lines 32-33 falls just below the
\* integer s * max_size / m (IEEE 754 binary64, round to nearest even); for
\* every other triple in that range the product truncates to the floor of the
\* exact quotient.
FloatBelowInteger == {<<22, 15, 22>>, <<23, 13, 23>>, <<26, 15, 26>>}

\* IntOfProduct with the product rounded to nearest instead of truncated
RoundOfProduct(s, size_limit, m) == (2 * s * size_limit + m) \div (2 * m)

\* line 33: int(s * ratio) with ratio = max_size / max(img.size) of line 32
IntOfProduct(s, size_limit, m) ==
    IF <<s, size_limit, m>> \in FloatBelowInteger
    THEN (s * size_limit) \div m - 1
    ELSE (s * size_limit) \div m

\* lines 31-34
NewSize(size, size_limit) ==
    IF Max2(size[1], size[2]) > size_limit
    THEN <<IntOfProduct(size[1], size_limit, Max2(size[1], size[2])),
           IntOfProduct(size[2], size_limit, Max2(size[1], size[2]))>>
    ELSE size

\* the modes of the images line 28 opens
Modes == {"RGB", "RGBA", "P"}

InitImage ==
    /\ ipc = "opened"
    /\ img_size \in (1..MaxDim) \X (1..MaxDim)
    /\ img_mode \in Modes
    /\ max_size \in 1..MaxDim
    /\ new_size = img_size
    /\ out_format = None
    /\ IdleMain /\ IdleRewrite

\* lines 31-34: the image is larger than max_size and is resized
Resize ==
    /\ UNCHANGED <<varsMain, varsRewrite>>
    /\ ipc = "opened" /\ Max2(img_size[1], img_size[2]) > max_size
    /\ new_size' = NewSize(img_size, max_size)
    /\ ipc' = "sized"
    /\ UNCHANGED <<img_size, img_mode, max_size, out_format>>

\* line 31: the image fits and keeps its size
KeepSize ==
    /\ UNCHANGED <<varsMain, varsRewrite>>
    /\ ipc = "opened" /\ ~(Max2(img_size[1], img_size[2]) > max_size)
    /\ new_size' = NewSize(img_size, max_size)
    /\ ipc' = "sized"
    /\ UNCHANGED <<img_size, img_mode, max_size, out_format>>

\* lines 39-40
Converted(mode) == IF mode = "RGBA" THEN "RGB" ELSE mode

\* lines 38-40
ConvertMode ==
    /\ UNCHANGED <<varsMain, varsRewrite>>
    /\ ipc = "sized"
    /\ img_mode' = Converted(img_mode)
    /\ ipc' = "converted"
    /\ UNCHANGED <<img_size, max_size, new_size, out_format>>

\* lines 42-44: the JPEG encoder writes the image and the bytes are returned
SaveJpeg ==
    /\ UNCHANGED <<varsMain, varsRewrite>>
    /\ ipc = "converted" /\ img_mode # "P"
    /\ out_format' = "JPEG"
    /\ ipc' = "done"
    /\ UNCHANGED <<img_size, img_mode, max_size, new_size>>

\* line 42: the JPEG encoder refuses a palette image (OSError)
SaveRaises ==
    /\ UNCHANGED <<varsMain, varsRewrite>>
    /\ ipc = "converted" /\ img_mode = "P"
    /\ ipc' = "raised"
    /\ UNCHANGED <<img_size, img_mode, max_size, new_size, out_format>>

NextImage ==
    \/ Resize
    \/ KeepSize
    \/ ConvertMode
    \/ SaveJpeg
    \/ SaveRaises

SpecImage == InitImage /\ [][NextImage]_vars

-----------------------------------------------------------------------------
(* Claims checked under SpecImage *)

Larger(size) == Max2(size[1], size[2])
Smaller(size) == Min2(size[1], size[2])
Abs(x) == IF x >= 0 THEN x ELSE -x

\* C10 as stated: when max(W, H) > max_dimension the larger dimension becomes
\* exactly max_dimension and the smaller one min(W, H) * max_dimension /
\* max(W, H) rounded to the nearest integer; otherwise the size is unchanged.
C10_RoundedToNearest ==
    ipc # "opened" =>
        IF Larger(img_size) > max_size
        THEN /\ Larger(new_size) = max_size
             /\ 2 * Abs(Smaller(new_size) * Larger(img_size) - Smaller(img_size) * max_size)
                   <= Larger(img_size)
        ELSE new_size = img_size

\* C10 amended: when max(W, H) > max_dimension each dimension s becomes
\* s * max_dimension / max(W, H) truncated toward zero, or one less than that
\* quotient when it is an integer the floating-point product falls just
\* below: never more than the exact quotient and at most one below it. So
\* the larger dimension is max_dimension or max_dimension - 1 and the
\* smaller one may be 0. Otherwise the size is unchanged.
C10_Truncated ==
    ipc # "opened" =>
        IF Larger(img_size) > max_size
        THEN /\ \A d \in 1..2 :
                  /\ new_size[d] * Larger(img_size) <= img_size[d] * max_size
                  /\ img_size[d] * max_size <= (new_size[d] + 1) * Larger(img_size)
                  /\ new_size[d] >= 0
             /\ Larger(new_size) \in {max_size - 1, max_size}
        ELSE new_size = img_size

\* 22 x 10 at max_size 15: 15 is not reached and 6.8 becomes 6
C10_Witness ==
    /\ ipc = "done" /\ out_format = "JPEG"
    /\ img_size = <<22, 10>> /\ max_size = 15
    /\ new_size = <<14, 6>>

====
